---- MODULE Spec2Model ----
(***************************************************************************)
(* A model of pyhive/sqlalchemy_hive.py: the Hive dialect's schema         *)
(* introspection (has_table, get_columns, get_indexes over the rows of a   *)
(* DESCRIBE query), its statement and DDL compilers (visit_insert,         *)
(* visit_column, post_create_table) and the HiveArray constructor.         *)
(*                                                                         *)
(* Text is modelled as a sequence of tokens.  A token is a maximal piece   *)
(* of text that the regular expressions of the source treat as a unit: a   *)
(* run of word characters, one punctuation character, one whitespace       *)
(* character, or a fixed phrase the source compares against as a whole.    *)
(* Python's None is the record None; a string is Str(tokens).              *)
(***************************************************************************)
EXTENDS Integers, Sequences, FiniteSets, TLC

VARIABLES db, given, call, item_type

vars == <<db, given, call, item_type>>

\* ------------------------------------------------------------------ bounds
MaxRows == 3
MaxErrTokens == 4
MaxInsertTokens == 5
MaxRefTokens == 5
MaxProps == 2
MaxDimensions == 2

\* ------------------------------------------------------------------ values
None == [none |-> TRUE, text |-> <<>>]
Str(s) == [none |-> FALSE, text |-> s]

\* Python truthiness of an optional string: None and "" are false.
Truthy(c) == ~c.none /\ c.text # <<>>

RECURSIVE LStrip(_)
LStrip(s) == IF s # <<>> /\ Head(s) = " " THEN LStrip(Tail(s)) ELSE s

RECURSIVE RStrip(_)
RStrip(s) ==
    IF s # <<>> /\ s[Len(s)] = " " THEN RStrip(SubSeq(s, 1, Len(s) - 1)) ELSE s

\* str.strip()
Strip(s) == RStrip(LStrip(s))

\* ------------------------------------------------------------------ types
Unset == "unset"

\* The keys of _type_map and the class each one maps to.
TypeMapKeys ==
    {"boolean", "tinyint", "smallint", "int", "bigint", "float", "double",
     "string", "varchar", "char", "date", "timestamp", "binary", "array",
     "map", "struct", "uniontype", "decimal"}

_type_map ==
    [k \in TypeMapKeys |->
        CASE k = "boolean" -> "Boolean"
          [] k = "tinyint" -> "MSTinyInteger"
          [] k = "smallint" -> "SmallInteger"
          [] k = "int" -> "Integer"
          [] k = "bigint" -> "BigInteger"
          [] k \in {"float", "double"} -> "Float"
          [] k = "date" -> "HiveDate"
          [] k = "timestamp" -> "HiveTimestamp"
          [] k = "array" -> "HiveArray"
          [] k = "decimal" -> "HiveDecimal"
          [] OTHER -> "String"]

\* The classes get_columns can hand out as a column's type; item_type holds
\* the item_type attribute of each class object (Unset: no such attribute).
Classes ==
    {"Boolean", "MSTinyInteger", "SmallInteger", "Integer", "BigInteger",
     "Float", "String", "HiveDate", "HiveTimestamp", "HiveArray",
     "HiveDecimal", "NullType"}

\* ------------------------------------------------------------------ state
NoCall == [op |-> "none", arg |-> <<>>, raised |-> "none", ret |-> <<>>,
           warned |-> <<>>]

\* given is what the caller hands to a compiler method or a constructor.
Given(kind, value) == [kind |-> kind, value |-> value]
NoInput == Given("none", <<>>)

\* ------------------------------------------------- the connection's answers
\* An identifier is the sequence of its characters.
IsPrefix(p, s) == Len(p) <= Len(s) /\ SubSeq(s, 1, Len(p)) = p

\* A token of an OperationalError's text: the phrase "TExecuteStatementResp",
\* the phrase "SemanticException", a newline, or the phrase
\* "Table not found " followed by the characters `name`.
ErrTok(k, name) == [k |-> k, name |-> name]

ErrTokens ==
    {ErrTok("resp", <<>>), ErrTok("sem", <<>>), ErrTok("nl", <<>>),
     ErrTok("tnf", <<"t">>), ErrTok("tnf", <<"s", ".", "t">>)}

\* The sequences over S of length at most n.
SeqsUpTo(S, n) == UNION {[1..k -> S] : k \in 0..n}

ErrTexts == SeqsUpTo(ErrTokens, MaxErrTokens)

Row(n, t, c) == [col_name |-> n, col_type |-> t, comment |-> c]

PartitionMarker == <<"# Partition Information">>
HeaderName == <<"# col_name">>

\* Rows a DESCRIBE can answer with.  col_name is a string in every row; the
\* other cells may be None.
PlainRow == Row(Str(<<"a">>), Str(<<"int">>), None)
PaddedArrayRow ==
    Row(Str(<<" ", "b", " ">>), Str(<<" ", "array", "<", "int", ">", " ">>),
        Str(<<" ", "note", " ">>))
StringArrayRow == Row(Str(<<"c">>), Str(<<"array", "<", "string", ">">>), None)
MarkerRow == Row(Str(PartitionMarker), None, None)
BlankRow == Row(Str(<<>>), Str(<<>>), None)
HeaderRow == Row(Str(HeaderName), Str(<<"data_type">>), Str(<<"comment">>))
UnknownItemRow == Row(Str(<<"e">>), Str(<<"array", "<", "foo", ">">>), None)
UpperCaseRow == Row(Str(<<"f">>), Str(<<"ARRAY", "<", "int", ">">>), None)
NoTypeRow == Row(Str(<<"g">>), None, None)
\* The row Hive answers DESCRIBE of a missing schema-qualified table with,
\* and the same text behind a blank.
MessageRow == Row(Str(<<"Table ", "s", ".", "t", " does not exist">>), None, None)
PaddedMessageRow ==
    Row(Str(<<" ", "Table ", "s", ".", "t", " does not exist">>), None, None)

RowChoices ==
    {PlainRow, PaddedArrayRow, StringArrayRow, MarkerRow, BlankRow, HeaderRow,
     UnknownItemRow, UpperCaseRow, NoTypeRow, MessageRow}

\* The rows that matter to the lookup of a table, whatever its columns.
LookupRows == {PlainRow, MarkerRow, BlankRow, MessageRow, PaddedMessageRow}

RowSeqs == SeqsUpTo(RowChoices, MaxRows)

\* What connection.execute("DESCRIBE ...") does: raise an OperationalError
\* carrying a text, or answer with rows.
Failed(text) == [kind |-> "error", text |-> text, rows |-> <<>>]
Answered(rows) == [kind |-> "rows", text |-> <<>>, rows |-> rows]

Describes == {Failed(t) : t \in ErrTexts} \cup {Answered(r) : r \in RowSeqs}

LookupDescribes ==
    {Failed(t) : t \in ErrTexts}
        \cup {Answered(r) : r \in SeqsUpTo(LookupRows, MaxRows)}

TableNames == {<<"t">>}
Schemas == {None, Str(<<"s">>)}

\* ------------------------------------------------------------ introspection
\* full_table of _get_table_columns: schema + "." + table_name when a schema
\* is given.
FullTable(table_name, schema) ==
    IF Truthy(schema) THEN schema.text \o <<".">> \o table_name ELSE table_name

\* re.search(r"TExecuteStatementResp.*SemanticException.*Table not found " +
\* re.escape(full_table), text): the three phrases in this order with no
\* newline from the first to the last ('.' does not match a newline), the
\* last one continued by the characters of full_table.
SearchTableNotFound(text, full_table) ==
    \E i, j, k \in 1..Len(text) :
        /\ i < j /\ j < k
        /\ text[i].k = "resp"
        /\ text[j].k = "sem"
        /\ text[k].k = "tnf" /\ IsPrefix(full_table, text[k].name)
        /\ \A m \in i..k : text[m].k # "nl"

\* re.match(r"Table .* does not exist", col_name): anchored at the start of
\* the raw cell.
MatchDoesNotExist(s) ==
    /\ s # <<>>
    /\ Head(s) = "Table "
    /\ \E j \in 2..Len(s) :
          /\ s[j] = " does not exist"
          /\ \A m \in 2..j : s[m] # "\n"

\* _get_table_columns taking any non-empty answer for the one-row message.
_get_table_columns_any_len(describe, table_name, schema) ==
    LET full_table == FullTable(table_name, schema) IN
    IF describe.kind = "error"
    THEN [raised |-> IF SearchTableNotFound(describe.text, full_table)
                     THEN "NoSuchTableError" ELSE "OperationalError",
          rows |-> <<>>]
    ELSE LET rows == describe.rows IN
         IF Len(rows) >= 1 /\ MatchDoesNotExist(rows[1].col_name.text)
         THEN [raised |-> "NoSuchTableError", rows |-> <<>>]
         ELSE [raised |-> "none", rows |-> rows]

\* _get_table_columns: [raised, rows].
_get_table_columns(describe, table_name, schema) ==
    LET full_table == FullTable(table_name, schema) IN
    IF describe.kind = "error"
    THEN [raised |-> IF SearchTableNotFound(describe.text, full_table)
                     THEN "NoSuchTableError" ELSE "OperationalError",
          rows |-> <<>>]
    ELSE LET rows == describe.rows IN
         IF Len(rows) = 1 /\ rows[1].col_name.none
         THEN [raised |-> "TypeError", rows |-> <<>>]
         ELSE IF Len(rows) = 1 /\ MatchDoesNotExist(rows[1].col_name.text)
         THEN [raised |-> "NoSuchTableError", rows |-> <<>>]
         ELSE [raised |-> "none", rows |-> rows]

\* has_table letting NoSuchTableError through.
has_table_uncaught(describe, table_name, schema) ==
    LET got == _get_table_columns(describe, table_name, schema) IN
    IF got.raised = "none" THEN [raised |-> "none", ret |-> TRUE]
    ELSE [raised |-> got.raised, ret |-> FALSE]

\* has_table: [raised, ret].
has_table(describe, table_name, schema) ==
    LET got == _get_table_columns(describe, table_name, schema) IN
    IF got.raised = "none" THEN [raised |-> "none", ret |-> TRUE]
    ELSE IF got.raised = "NoSuchTableError" THEN [raised |-> "none", ret |-> FALSE]
    ELSE [raised |-> got.raised, ret |-> FALSE]

\* col.strip() if col else None
StripCell(c) == IF Truthy(c) THEN Str(Strip(c.text)) ELSE None

StripRow(row) ==
    Row(StripCell(row.col_name), StripCell(row.col_type), StripCell(row.comment))

\* [row for row in rows if row[0] and row[0] != "# col_name"]
KeepRow(row) == Truthy(row.col_name) /\ row.col_name # Str(HeaderName)

RECURSIVE FilterRows(_)
FilterRows(rows) ==
    IF rows = <<>> THEN <<>>
    ELSE IF KeepRow(Head(rows)) THEN <<Head(rows)>> \o FilterRows(Tail(rows))
    ELSE FilterRows(Tail(rows))

\* The two list comprehensions get_columns and get_indexes start with.
CleanRows(rows) == FilterRows([i \in 1..Len(rows) |-> StripRow(rows[i])])

\* \w: the tokens that are runs of word characters.
NonWord == {" ", "<", ">", "(", ")", ",", ".", "\n"}
IsWord(t) == t \notin NonWord /\ t # Head(PartitionMarker) /\ t # Head(HeaderName)

\* str.lower() on a word, as re.I compares it.
Lower(t) ==
    CASE t \in {"ARRAY", "Array"} -> "array"
      [] t = "INT" -> "int"
      [] OTHER -> t

\* re.search(r"^array<(\w+)>", col_type, re.I)
ArrayMatches(s) ==
    /\ Len(s) >= 4
    /\ Lower(s[1]) = "array"
    /\ s[2] = "<"
    /\ IsWord(s[3])
    /\ s[4] = ">"

ArrayItem(s) == s[3]

Column(name, type, comment) ==
    [name |-> name, type |-> type, nullable |-> TRUE, default |-> None,
     comment |-> comment]

\* One pass of the body of get_columns' loop for a row that is not the
\* partition marker; acc is [result, attrs, warned, raised].
ColumnStep(row, acc) ==
    IF row.col_type.none
    THEN [acc EXCEPT !.raised = "TypeError"]
    ELSE IF row.col_type.text = <<>> \/ ~IsWord(Head(row.col_type.text))
    THEN [acc EXCEPT !.raised = "AttributeError"]
    ELSE
      LET col_type == row.col_type.text
          col_type_name == Head(col_type)
          known == col_type_name \in TypeMapKeys
          mapped_type == IF known THEN _type_map[col_type_name] ELSE "NullType"
          warned == IF known THEN acc.warned
                    ELSE Append(acc.warned, <<col_type, row.col_name.text>>)
      IN IF ArrayMatches(col_type) /\ ArrayItem(col_type) \notin TypeMapKeys
         THEN [acc EXCEPT !.warned = warned, !.raised = "KeyError"]
         ELSE [result |-> Append(acc.result,
                                 Column(row.col_name.text, mapped_type, row.comment)),
               attrs |-> IF ArrayMatches(col_type)
                         THEN [acc.attrs EXCEPT
                                 ![mapped_type] = _type_map[ArrayItem(col_type)]]
                         ELSE acc.attrs,
               warned |-> warned,
               raised |-> "none"]

RECURSIVE ColumnsLoop(_, _)
ColumnsLoop(rows, acc) ==
    IF rows = <<>> \/ acc.raised # "none" THEN acc
    ELSE IF Head(rows).col_name = Str(PartitionMarker) THEN acc
    ELSE ColumnsLoop(Tail(rows), ColumnStep(Head(rows), acc))

\* get_columns: [raised, ret, warned, attrs]; attrs is the item_type
\* attribute of every class when the call ends.
get_columns(describe, table_name, schema, attrs) ==
    LET got == _get_table_columns(describe, table_name, schema) IN
    IF got.raised # "none"
    THEN [raised |-> got.raised, ret |-> <<>>, warned |-> <<>>, attrs |-> attrs]
    ELSE LET done == ColumnsLoop(CleanRows(got.rows),
                                 [result |-> <<>>, attrs |-> attrs,
                                  warned |-> <<>>, raised |-> "none"])
         IN [raised |-> done.raised,
             ret |-> IF done.raised = "none" THEN done.result ELSE <<>>,
             warned |-> done.warned,
             attrs |-> done.attrs]

\* The value of i when get_indexes' enumerate loop ends (0-based): the index
\* of the first marker row, else of the last row.
RECURSIVE EnumerateStop(_, _)
EnumerateStop(rows, i) ==
    IF i + 1 = Len(rows) \/ rows[i + 1].col_name = Str(PartitionMarker) THEN i
    ELSE EnumerateStop(rows, i + 1)

Index(col_names) == [name |-> "partition", column_names |-> col_names, unique |-> FALSE]

\* get_indexes: [raised, ret].
get_indexes(describe, table_name, schema) ==
    LET got == _get_table_columns(describe, table_name, schema) IN
    IF got.raised # "none" THEN [raised |-> got.raised, ret |-> <<>>]
    ELSE LET rows == CleanRows(got.rows) IN
         IF rows = <<>>
         THEN [raised |-> "UnboundLocalError", ret |-> <<>>]
         ELSE LET i == EnumerateStop(rows, 0)
                  after == SubSeq(rows, i + 2, Len(rows))
                  col_names == [n \in 1..Len(after) |-> after[n].col_name.text]
              IN [raised |-> "none",
                  ret |-> IF col_names # <<>> THEN <<Index(col_names)>> ELSE <<>>]

\* ------------------------------------------------------------------ actions
\* db is what the connection answers to DESCRIBE for each full table name.
\* One of the two tables takes any answer within the bounds; the other one
\* is a table with one array<string> column.
FullTables == {FullTable(t, s) : t \in TableNames, s \in Schemas}

OtherAnswer == Answered(<<StringArrayRow>>)

Init ==
    /\ \E main \in FullTables, d \in Describes :
          db = [f \in FullTables |-> IF f = main THEN d ELSE OtherAnswer]
    /\ given = NoInput
    /\ call = NoCall
    /\ item_type = [c \in Classes |-> Unset]

Args(t, s) == [table_name |-> t, schema |-> s]

Describe(t, s) == db[FullTable(t, s)]

HasTable ==
    \E t \in TableNames, s \in Schemas :
        LET r == has_table(Describe(t, s), t, s) IN
        /\ call' = [op |-> "has_table", arg |-> Args(t, s),
                    raised |-> r.raised, ret |-> r.ret, warned |-> <<>>]
        /\ UNCHANGED <<db, given, item_type>>

GetColumns ==
    \E t \in TableNames, s \in Schemas :
        LET r == get_columns(Describe(t, s), t, s, item_type) IN
        /\ call' = [op |-> "get_columns", arg |-> Args(t, s),
                    raised |-> r.raised, ret |-> r.ret, warned |-> r.warned]
        /\ item_type' = r.attrs
        /\ UNCHANGED <<db, given>>

GetIndexes ==
    \E t \in TableNames, s \in Schemas :
        LET r == get_indexes(Describe(t, s), t, s) IN
        /\ call' = [op |-> "get_indexes", arg |-> Args(t, s),
                    raised |-> r.raised, ret |-> r.ret, warned |-> <<>>]
        /\ UNCHANGED <<db, given, item_type>>

Next == HasTable \/ GetColumns \/ GetIndexes

Spec == Init /\ [][Next]_vars

\* The same calls where only the lookup of the table matters: any error
\* text, and answers made of the rows of LookupRows.
InitLookup ==
    /\ \E main \in FullTables, d \in LookupDescribes :
          db = [f \in FullTables |-> IF f = main THEN d ELSE OtherAnswer]
    /\ given = NoInput
    /\ call = NoCall
    /\ item_type = [c \in Classes |-> Unset]

SpecLookup == InitLookup /\ [][Next]_vars

\* ------------------------------------------------- claims on introspection
\* The answer the last call's DESCRIBE got, and whether it was a list of rows
\* that does not signal a missing table.
Asked == Describe(call.arg.table_name, call.arg.schema)
AskedFullTable == FullTable(call.arg.table_name, call.arg.schema)
Introspected == call.op \in {"has_table", "get_columns", "get_indexes"}

\* A one-row answer whose col_name reads "Table ... does not exist".
MissingTableMessage(d) ==
    /\ d.kind = "rows"
    /\ Len(d.rows) = 1
    /\ LET s == d.rows[1].col_name.text IN
          Len(s) >= 2 /\ s[1] = "Table " /\ s[Len(s)] = " does not exist"

GotRows == Introspected /\ Asked.kind = "rows" /\ ~MissingTableMessage(Asked)

\* The rows of an answer after trimming the cells and dropping the blank
\* rows and the header row, split at the first partition marker.
IsMarker(row) == row.col_name.text = PartitionMarker

RECURSIVE BeforeMarker(_)
BeforeMarker(rows) ==
    IF rows = <<>> \/ IsMarker(Head(rows)) THEN <<>>
    ELSE <<Head(rows)>> \o BeforeMarker(Tail(rows))

RECURSIVE AfterMarker(_)
AfterMarker(rows) ==
    IF rows = <<>> THEN <<>>
    ELSE IF IsMarker(Head(rows)) THEN Tail(rows)
    ELSE AfterMarker(Tail(rows))

HasMarker(rows) == \E i \in 1..Len(rows) : IsMarker(rows[i])

Trimmed(d) == CleanRows(d.rows)
NamesOf(rows) == [i \in 1..Len(rows) |-> rows[i].col_name.text]
ColumnNames(ret) == [i \in 1..Len(ret) |-> ret[i].name]
PartitionNames(ret) == IF ret = <<>> THEN <<>> ELSE ret[1].column_names

\* C1: for every sequence of DESCRIBE rows, get_columns returns exactly one
\* column per trimmed row before the first '# Partition Information' row, in
\* order, and get_indexes returns as partition column names exactly the rows
\* after that marker.
C1_ColumnsThenPartitions ==
    /\ (GotRows /\ call.op = "get_columns") =>
          /\ call.raised = "none"
          /\ ColumnNames(call.ret) = NamesOf(BeforeMarker(Trimmed(Asked)))
    /\ (GotRows /\ call.op = "get_indexes" /\ HasMarker(Trimmed(Asked))) =>
          /\ call.raised = "none"
          /\ PartitionNames(call.ret) = NamesOf(AfterMarker(Trimmed(Asked)))

\* The same split wherever get_columns returned: what is left of C1 beside
\* the calls that raise.
C1_SplitWhenReturned ==
    /\ (GotRows /\ call.op = "get_columns" /\ call.raised = "none") =>
          ColumnNames(call.ret) = NamesOf(BeforeMarker(Trimmed(Asked)))
    /\ (GotRows /\ call.op = "get_indexes" /\ HasMarker(Trimmed(Asked))) =>
          /\ call.raised = "none"
          /\ PartitionNames(call.ret) = NamesOf(AfterMarker(Trimmed(Asked)))

\* An error text with 'SemanticException' followed later by
\* 'Table not found <name>' for the table asked about.
SemanticThenNotFound(text, name) ==
    \E j, k \in 1..Len(text) :
        j < k /\ text[j] = ErrTok("sem", <<>>) /\ text[k] = ErrTok("tnf", name)

\* The same preceded, on the same line, by 'TExecuteStatementResp'.
RespSemanticThenNotFound(text, name) ==
    \E i, j, k \in 1..Len(text) :
        /\ i < j /\ j < k
        /\ text[i] = ErrTok("resp", <<>>)
        /\ text[j] = ErrTok("sem", <<>>)
        /\ text[k] = ErrTok("tnf", name)
        /\ \A m \in i..k : text[m] # ErrTok("nl", <<>>)

\* C2 (as claimed): whenever DESCRIBE fails with an OperationalError whose
\* text has 'SemanticException' followed later by 'Table not found <name>',
\* has_table returns False and does not raise.
C2_SemanticNotFoundIsFalse ==
    (call.op = "has_table" /\ Asked.kind = "error"
        /\ SemanticThenNotFound(Asked.text, AskedFullTable))
    => (call.raised = "none" /\ call.ret = FALSE)

\* C2 (amended): whenever the error text has, on one line,
\* 'TExecuteStatementResp', later 'SemanticException' and later
\* 'Table not found <name>', has_table returns False and does not raise.
C2_RespSemanticNotFoundIsFalse ==
    (call.op = "has_table" /\ Asked.kind = "error"
        /\ RespSemanticThenNotFound(Asked.text, AskedFullTable))
    => (call.raised = "none" /\ call.ret = FALSE)

C2_Witness ==
    /\ call.op = "has_table" /\ Asked.kind = "error"
    /\ RespSemanticThenNotFound(Asked.text, AskedFullTable)
    /\ call.arg.schema # None
    /\ call.ret = FALSE

\* C3: a DESCRIBE that answers exactly one row reading 'Table ... does not
\* exist' makes has_table return False and get_columns and get_indexes raise
\* NoSuchTableError; two or more rows, or one row that does not read so,
\* raise no NoSuchTableError and _get_table_columns returns the rows.
C3_OneRowMessageIsNoSuchTable ==
    (Introspected /\ Asked.kind = "rows") =>
        LET got == _get_table_columns(Asked, call.arg.table_name, call.arg.schema)
        IN IF MissingTableMessage(Asked)
           THEN /\ got.raised = "NoSuchTableError"
                /\ call.op = "has_table" => (call.raised = "none" /\ call.ret = FALSE)
                /\ call.op # "has_table" => call.raised = "NoSuchTableError"
           ELSE /\ got.raised = "none" /\ got.rows = Asked.rows
                /\ call.op = "has_table" => (call.raised = "none" /\ call.ret = TRUE)
                /\ call.raised # "NoSuchTableError"

C3_Witness ==
    /\ call.op = "get_columns" /\ MissingTableMessage(Asked)
    /\ call.raised = "NoSuchTableError"

C3_WitnessTwoRows ==
    /\ call.op = "has_table" /\ Asked.kind = "rows" /\ Len(Asked.rows) = 2
    /\ MissingTableMessage(Answered(<<Asked.rows[1]>>))
    /\ call.ret = TRUE

\* C4: get_columns never aborts because of one column: whatever the rows of
\* an answer that does not signal a missing table, it does not raise, a type
\* token outside the type map gives the null type with a warning, and every
\* row before the partition marker is returned.
C4_NoColumnAborts ==
    (GotRows /\ call.op = "get_columns") =>
        LET rows == BeforeMarker(Trimmed(Asked)) IN
        /\ call.raised = "none"
        /\ Len(call.ret) = Len(rows)
        /\ \A i \in 1..Len(rows) :
              LET t == rows[i].col_type IN
              (Truthy(t) /\ Head(t.text) \notin TypeMapKeys) =>
                  /\ call.ret[i].type = "NullType"
                  /\ \E w \in 1..Len(call.warned) :
                        call.warned[w] = <<t.text, rows[i].col_name.text>>

\* The item type seen through a returned column: the item_type attribute of
\* the class object the column's "type" refers to.
ItemTypeSeen(col, attrs) == attrs[col.type]

\* C5: every returned column whose type text reads array<ITEM>, in any case,
\* shows as its item type what the type map gives for its own ITEM; so two
\* array columns of one table with different ITEMs each show their own.
C5_OwnItemType ==
    (GotRows /\ call.op = "get_columns" /\ call.raised = "none") =>
        LET rows == BeforeMarker(Trimmed(Asked)) IN
        \A i \in 1..Len(call.ret) :
            LET s == rows[i].col_type.text IN
            (Len(s) = 4 /\ Lower(s[1]) = "array" /\ s[2] = "<" /\ s[4] = ">") =>
                ItemTypeSeen(call.ret[i], item_type) = _type_map[s[3]]

\* C6: no later get_columns call changes what an earlier call returned: the
\* item type seen through each column of the last returned result stays as
\* it was when that call returned.
C6_EarlierResultKept ==
    [][(call.op = "get_columns" /\ call.raised = "none") =>
          \A i \in 1..Len(call.ret) :
              ItemTypeSeen(call.ret[i], item_type')
                  = ItemTypeSeen(call.ret[i], item_type)]_vars

\* ------------------------------------------------------- statement compiler
\* The text super().visit_insert renders is a sequence of tokens joined by
\* single blanks: the keywords "INSERT INTO", a name, "PARTITION", a
\* parenthesised list and whatever follows.
InsertKeyword == "INSERT INTO"

\* Tokens with a blank inside: [^\s]+ cannot match them as a whole.
HasBlank(tok) == tok \in {InsertKeyword, "(a, b)"}

\* \([^\)]*\) and \([^\)]+\)
IsParenGroup(tok) == tok \in {"(a, b)", "(p=1)", "()"}
IsNonEmptyParenGroup(tok) == IsParenGroup(tok) /\ tok # "()"

\* insert_regex matching at token i: (INSERT INTO) ([^\s]+) \([^\)]*\)
InsertRegexAt(text, i) ==
    /\ i + 2 <= Len(text)
    /\ text[i] = InsertKeyword
    /\ ~HasBlank(text[i + 1])
    /\ IsParenGroup(text[i + 2])

\* insert_partition_regex matching at token i:
\* (INSERT INTO) ([^\s]+) (PARTITION \([^\)]+\)) \([^\)]*\)
InsertPartitionRegexAt(text, i) ==
    /\ i + 4 <= Len(text)
    /\ text[i] = InsertKeyword
    /\ ~HasBlank(text[i + 1])
    /\ text[i + 2] = "PARTITION"
    /\ IsNonEmptyParenGroup(text[i + 3])
    /\ IsParenGroup(text[i + 4])

\* regex.search(result)
InsertRegexSearch(text) == \E i \in 1..Len(text) : InsertRegexAt(text, i)
InsertPartitionRegexSearch(text) ==
    \E i \in 1..Len(text) : InsertPartitionRegexAt(text, i)

\* insert_regex.sub(r"\1 TABLE \2", result): every match, left to right.
RECURSIVE InsertRegexSub(_)
InsertRegexSub(text) ==
    IF text = <<>> THEN <<>>
    ELSE IF InsertRegexAt(text, 1)
    THEN <<text[1], "TABLE", text[2]>> \o InsertRegexSub(SubSeq(text, 4, Len(text)))
    ELSE <<Head(text)>> \o InsertRegexSub(Tail(text))

\* insert_partition_regex.sub(r"\1 TABLE \2 \3", result)
RECURSIVE InsertPartitionRegexSub(_)
InsertPartitionRegexSub(text) ==
    IF text = <<>> THEN <<>>
    ELSE IF InsertPartitionRegexAt(text, 1)
    THEN <<text[1], "TABLE", text[2], text[3], text[4]>>
             \o InsertPartitionRegexSub(SubSeq(text, 6, Len(text)))
    ELSE <<Head(text)>> \o InsertPartitionRegexSub(Tail(text))

\* visit_insert with the assert compiled away.
visit_insert_unchecked(result) ==
    IF InsertRegexSearch(result)
    THEN [raised |-> "none", ret |-> InsertRegexSub(result)]
    ELSE [raised |-> "none", ret |-> InsertPartitionRegexSub(result)]

\* visit_insert: [raised, ret].
visit_insert(result) ==
    IF InsertRegexSearch(result)
    THEN [raised |-> "none", ret |-> InsertRegexSub(result)]
    ELSE IF ~InsertPartitionRegexSearch(result)
    THEN [raised |-> "AssertionError", ret |-> <<>>]
    ELSE [raised |-> "none", ret |-> InsertPartitionRegexSub(result)]

\* result.count(".")
RECURSIVE CountDots(_)
CountDots(text) ==
    IF text = <<>> THEN 0
    ELSE (IF Head(text) = "." THEN 1 ELSE 0) + CountDots(Tail(text))

\* result.index("."), 0-based; the text has a "." when it is used.
RECURSIVE IndexOfDot(_)
IndexOfDot(text) == IF Head(text) = "." THEN 0 ELSE 1 + IndexOfDot(Tail(text))

\* visit_column chopping at the last separator instead of the first.
RECURSIVE LastIndexOfDot(_)
LastIndexOfDot(text) ==
    IF text[Len(text)] = "." THEN Len(text) - 1
    ELSE LastIndexOfDot(SubSeq(text, 1, Len(text) - 1))

visit_column_rindex(result) ==
    LET dot_count == CountDots(result) IN
    IF dot_count \notin {0, 1, 2} THEN [raised |-> "AssertionError", ret |-> <<>>]
    ELSE IF dot_count = 2
    THEN [raised |-> "none",
          ret |-> SubSeq(result, LastIndexOfDot(result) + 2, Len(result))]
    ELSE [raised |-> "none", ret |-> result]

\* visit_column: [raised, ret].
visit_column(result) ==
    LET dot_count == CountDots(result) IN
    IF dot_count \notin {0, 1, 2} THEN [raised |-> "AssertionError", ret |-> <<>>]
    ELSE IF dot_count = 2
    THEN [raised |-> "none",
          ret |-> SubSeq(result, IndexOfDot(result) + 2, Len(result))]
    ELSE [raised |-> "none", ret |-> result]

\* What the generic compiler renders for one INSERT statement: the keywords
\* once, at the start, then up to MaxInsertTokens further tokens.
InsertTailTokens == {"t", "PARTITION", "(a, b)", "(p=1)", "()", "SELECT"}
InsertTexts == {<<InsertKeyword>> \o r : r \in SeqsUpTo(InsertTailTokens, MaxInsertTokens)}

\* What it renders for a column reference: name characters and separators.
RefTokens == {"a", "b", "."}
ColumnRefs == SeqsUpTo(RefTokens, MaxRefTokens)

\* ------------------------------------------------------------- DDL compiler
\* A table option of table.kwargs: absent, or present with a value.
Absent == [present |-> FALSE, value |-> <<>>]
Present(v) == [present |-> TRUE, value |-> v]

\* Keys of hive_table_properties are one character, held as its code point;
\* values are small integers.  An f-string renders both with str().
PropertyKeys == {66, 97, 98}
PropertyValues == {1, 2}

Chr(k) == CASE k = 66 -> "B" [] k = 97 -> "a" [] k = 98 -> "b"
ValueText(v) == CASE v = 1 -> "1" [] v = 2 -> "2"

\* Tuple comparison of (key, value) items, as sorted() compares them.
ItemLess(p, q) == p[1] < q[1] \/ (p[1] = q[1] /\ p[2] < q[2])

RECURSIVE InsertSorted(_, _)
InsertSorted(x, sorted) ==
    IF sorted = <<>> THEN <<x>>
    ELSE IF ItemLess(x, Head(sorted)) THEN <<x>> \o sorted
    ELSE <<Head(sorted)>> \o InsertSorted(x, Tail(sorted))

\* sorted(table.kwargs["hive_table_properties"].items())
RECURSIVE SortedItems(_)
SortedItems(items) ==
    IF items = <<>> THEN <<>>
    ELSE InsertSorted(Head(items), SortedItems(Tail(items)))

\* f"'{property_}' = '{value}'"
PropertyText(item) == <<"'", Chr(item[1]), "' = '", ValueText(item[2]), "'">>

\* ', '.join(table_properties)
RECURSIVE JoinProperties(_)
JoinProperties(items) ==
    IF items = <<>> THEN <<>>
    ELSE IF Len(items) = 1 THEN PropertyText(items[1])
    ELSE PropertyText(items[1]) \o <<", ">> \o JoinProperties(Tail(items))

\* The clauses table_opts yields, each a line of tokens.
CommentClause(table) ==
    IF Truthy(table.comment)
    THEN <<(<<"COMMENT '">> \o table.comment.text \o <<"'">>)>> ELSE <<>>

KwargClause(opt, keyword) ==
    IF opt.present THEN <<(<<keyword>> \o opt.value)>> ELSE <<>>

PropertiesClause(opt, items) ==
    IF opt.present
    THEN <<(<<"TBLPROPERTIES (">> \o JoinProperties(items) \o <<")">>)>> ELSE <<>>

\* post_create_table listing the properties in the mapping's own order.
post_create_table_unsorted(table) ==
    <<<<>>>> \o CommentClause(table)
        \o KwargClause(table.hive_partitioned_by, "PARTITIONED BY ")
        \o KwargClause(table.hive_clustered_by, "CLUSTERED BY ")
        \o KwargClause(table.hive_stored_as, "STORED AS ")
        \o PropertiesClause(table.hive_table_properties,
                            table.hive_table_properties.value)

\* post_create_table: the returned text as its lines ("\n" + "\n".join(...)
\* starts with an empty line).
post_create_table(table) ==
    <<<<>>>> \o CommentClause(table)
        \o KwargClause(table.hive_partitioned_by, "PARTITIONED BY ")
        \o KwargClause(table.hive_clustered_by, "CLUSTERED BY ")
        \o KwargClause(table.hive_stored_as, "STORED AS ")
        \o PropertiesClause(table.hive_table_properties,
                            SortedItems(table.hive_table_properties.value))

\* A dict's items in insertion order: no key twice.
DistinctKeys(items) ==
    \A i, j \in 1..Len(items) : i # j => items[i][1] # items[j][1]

PropertyMappings ==
    {m \in SeqsUpTo(PropertyKeys \X PropertyValues, MaxProps) : DistinctKeys(m)}

Tables ==
    [comment : {None, Str(<<>>), Str(<<"c">>)},
     hive_partitioned_by : {Absent, Present(<<"(p INT)">>)},
     hive_clustered_by : {Absent, Present(<<"(a) INTO 2 BUCKETS">>)},
     hive_stored_as : {Absent, Present(<<"ORC">>)},
     hive_table_properties : {Absent} \cup {Present(m) : m \in PropertyMappings}]

\* ------------------------------------------------------- compiler actions
InitCompiler ==
    /\ db = [f \in FullTables |-> OtherAnswer]
    /\ \/ \E t \in InsertTexts : given = Given("insert", t)
       \/ \E r \in ColumnRefs : given = Given("column", r)
       \/ \E t \in Tables : given = Given("table", t)
    /\ call = NoCall
    /\ item_type = [c \in Classes |-> Unset]

VisitInsert ==
    /\ given.kind = "insert"
    /\ LET r == visit_insert(given.value) IN
       call' = [op |-> "visit_insert", arg |-> given.value,
                raised |-> r.raised, ret |-> r.ret, warned |-> <<>>]
    /\ UNCHANGED <<db, given, item_type>>

VisitColumn ==
    /\ given.kind = "column"
    /\ LET r == visit_column(given.value) IN
       call' = [op |-> "visit_column", arg |-> given.value,
                raised |-> r.raised, ret |-> r.ret, warned |-> <<>>]
    /\ UNCHANGED <<db, given, item_type>>

PostCreateTable ==
    /\ given.kind = "table"
    /\ call' = [op |-> "post_create_table", arg |-> given.value,
                raised |-> "none", ret |-> post_create_table(given.value),
                warned |-> <<>>]
    /\ UNCHANGED <<db, given, item_type>>

NextCompiler == VisitInsert \/ VisitColumn \/ PostCreateTable

SpecCompiler == InitCompiler /\ [][NextCompiler]_vars

\* ---------------------------------------------------- claims on compilers
\* The shapes the generic INSERT text can have: <target> is a run without
\* blanks, (<cols>) a parenthesised list, (<spec>) a non-empty one.
ClaimTarget(tok) == tok \in {"t", "PARTITION", "SELECT", "(p=1)", "()"}
ClaimList(tok) == tok \in {"(a, b)", "(p=1)", "()"}
ClaimSpecList(tok) == tok \in {"(a, b)", "(p=1)"}

PlainInsert(t) ==
    /\ Len(t) >= 3
    /\ t[1] = "INSERT INTO" /\ ClaimTarget(t[2]) /\ ClaimList(t[3])

PartitionInsert(t) ==
    /\ Len(t) >= 5
    /\ t[1] = "INSERT INTO" /\ ClaimTarget(t[2]) /\ t[3] = "PARTITION"
    /\ ClaimSpecList(t[4]) /\ ClaimList(t[5])

\* C7: visit_insert turns 'INSERT INTO <target> (<cols>) <rest>' into
\* 'INSERT INTO TABLE <target> <rest>' and
\* 'INSERT INTO <target> PARTITION (<spec>) (<cols>) <rest>' into
\* 'INSERT INTO TABLE <target> PARTITION (<spec>) <rest>'; text of neither
\* shape fails with an AssertionError.
C7_InsertRewritten ==
    call.op = "visit_insert" =>
        LET t == call.arg IN
        /\ ~(PlainInsert(t) /\ PartitionInsert(t))
        /\ PlainInsert(t) =>
              /\ call.raised = "none"
              /\ call.ret = <<"INSERT INTO", "TABLE", t[2]>> \o SubSeq(t, 4, Len(t))
        /\ PartitionInsert(t) =>
              /\ call.raised = "none"
              /\ call.ret = <<"INSERT INTO", "TABLE", t[2], "PARTITION", t[4]>>
                                \o SubSeq(t, 6, Len(t))
        /\ (~PlainInsert(t) /\ ~PartitionInsert(t)) =>
              call.raised = "AssertionError"

C7_Witness ==
    /\ call.op = "visit_insert"
    /\ call.arg = <<"INSERT INTO", "t", "PARTITION", "(p=1)", "(a, b)", "SELECT">>
    /\ call.ret = <<"INSERT INTO", "TABLE", "t", "PARTITION", "(p=1)", "SELECT">>

Separators(t) == {i \in 1..Len(t) : t[i] = "."}

\* C8: visit_column returns a reference with no or one '.' unchanged, removes
\* the segment up to and including the first '.' when there are exactly
\* two, and fails with an AssertionError when there are more.
C8_SchemaChopped ==
    call.op = "visit_column" =>
        LET t == call.arg
            n == Cardinality(Separators(t))
        IN /\ n <= 1 => (call.raised = "none" /\ call.ret = t)
           /\ n = 2 =>
                 /\ call.raised = "none"
                 /\ \E k \in Separators(t) :
                       /\ \A m \in Separators(t) : k <= m
                       /\ call.ret = SubSeq(t, k + 1, Len(t))
                 /\ Cardinality(Separators(call.ret)) = 1
           /\ n > 2 => call.raised = "AssertionError"

C8_Witness ==
    /\ call.op = "visit_column"
    /\ call.arg = <<"a", ".", "b", ".", "a">>
    /\ call.ret = <<"b", ".", "a">>

\* The clause keywords in their fixed order, and whether a table has the
\* option each one belongs to.
ClauseOrder ==
    <<"COMMENT '", "PARTITIONED BY ", "CLUSTERED BY ", "STORED AS ", "TBLPROPERTIES (">>

OptionPresent(table, keyword) ==
    CASE keyword = "COMMENT '" -> ~table.comment.none /\ table.comment.text # <<>>
      [] keyword = "PARTITIONED BY " -> table.hive_partitioned_by.present
      [] keyword = "CLUSTERED BY " -> table.hive_clustered_by.present
      [] keyword = "STORED AS " -> table.hive_stored_as.present
      [] keyword = "TBLPROPERTIES (" -> table.hive_table_properties.present

\* The keys of a mapping in ascending order.
AscendingKeys(items) ==
    LET keys == {items[i][1] : i \in 1..Len(items)}
    IN CHOOSE q \in [1..Len(items) -> keys] :
           \A i, j \in 1..Len(items) : i < j => q[i] < q[j]

ValueOf(items, key) ==
    LET i == CHOOSE j \in 1..Len(items) : items[j][1] = key IN items[i][2]

\* C9: post_create_table emits a clause for exactly the options that are
\* present, in the order COMMENT, PARTITIONED BY, CLUSTERED BY, STORED AS,
\* TBLPROPERTIES, and lists the properties sorted by key whatever the order
\* of the mapping.
C9_ClausesInOrderPropertiesSorted ==
    call.op = "post_create_table" =>
        LET table == call.arg
            lines == Tail(call.ret)
            TestPresent(kw) == OptionPresent(table, kw)
            items == table.hive_table_properties.value
            n == Len(items)
        IN /\ call.ret[1] = <<>>
           /\ [i \in 1..Len(lines) |-> Head(lines[i])] = SelectSeq(ClauseOrder, TestPresent)
           /\ table.hive_table_properties.present =>
                 LET line == lines[Len(lines)] IN
                 /\ Len(line) = IF n = 0 THEN 2 ELSE 6 * n + 1
                 /\ \A i \in 1..n :
                       /\ line[6 * i - 3] = Chr(AscendingKeys(items)[i])
                       /\ line[6 * i - 1] = ValueText(ValueOf(items, AscendingKeys(items)[i]))

C9_Witness ==
    /\ call.op = "post_create_table"
    /\ call.arg.hive_table_properties = Present(<<<<98, 2>>, <<97, 1>>>>)
    /\ call.arg.comment = Str(<<"c">>)
    /\ ~call.arg.hive_stored_as.present
    /\ call.arg.hive_partitioned_by.present
    /\ Len(call.ret) = 4
    /\ call.ret[4] = <<"TBLPROPERTIES (", "'", "a", "' = '", "1", "'", ", ",
                       "'", "b", "' = '", "2", "'", ")">>

\* ------------------------------------------------------------------ HiveArray
\* The item_type argument of HiveArray(...): an instance of a type class, a
\* type class itself, or a string.
Instance(c) == [form |-> "instance", of |-> c]
Class(c) == [form |-> "class", of |-> c]
Name(k) == [form |-> "str", of |-> k]

\* dimensions: None or a number.
NoDimensions == [none |-> TRUE, n |-> 0]
Dimensions(n) == [none |-> FALSE, n |-> n]

NoObject == [item_type |-> Name("none"), dimensions |-> NoDimensions,
             zero_indexes |-> FALSE]

\* item_type(): every class of the type map but HiveArray constructs without
\* arguments; HiveArray() lacks its required item_type.
Construct(c) ==
    IF c = "HiveArray" THEN [raised |-> "TypeError", ret |-> Instance(c)]
    ELSE [raised |-> "none", ret |-> Instance(c)]

\* HiveArray.__init__: [raised, ret]; ret is the constructed object.
HiveArrayInit(item, dimensions, zero_indexes) ==
    LET object(it) == [item_type |-> it, dimensions |-> dimensions,
                       zero_indexes |-> zero_indexes]
    IN IF item.form = "instance" /\ item.of = "HiveArray"
       THEN [raised |-> "ValueError", ret |-> NoObject]
       ELSE IF item.form = "class"
       THEN [raised |-> Construct(item.of).raised,
             ret |-> IF Construct(item.of).raised = "none"
                     THEN object(Construct(item.of).ret) ELSE NoObject]
       ELSE IF item.form = "str"
       THEN IF item.of \notin TypeMapKeys
            THEN [raised |-> "KeyError", ret |-> NoObject]
            ELSE [raised |-> "none", ret |-> object(Class(_type_map[item.of]))]
       ELSE [raised |-> "none", ret |-> object(item)]

ItemTypeArgs ==
    {Instance(c) : c \in Classes} \cup {Class(c) : c \in Classes}
        \cup {Name(k) : k \in TypeMapKeys \cup {"foo"}}

DimensionsArgs == {NoDimensions} \cup {Dimensions(n) : n \in 1..MaxDimensions}

ArrayArgs ==
    [item_type : ItemTypeArgs, dimensions : DimensionsArgs, zero_indexes : BOOLEAN]

\* ------------------------------------------------------- result processors
\* The values a result processor is given: None, a str, a datetime.date, a
\* datetime.datetime (a subclass of date) or a decimal.Decimal.
NoDate == [year |-> 0, month |-> 0, day |-> 0]
NoTime == [hour |-> 0, minute |-> 0, second |-> 0]
NoDec == [sign |-> 0, digits |-> <<>>, exponent |-> 0]

NoneValue ==
    [kind |-> "None", text |-> <<>>, date |-> NoDate, time |-> NoTime, dec |-> NoDec]
StrValue(text) ==
    [kind |-> "str", text |-> text, date |-> NoDate, time |-> NoTime, dec |-> NoDec]
DateValue(d) ==
    [kind |-> "date", text |-> <<>>, date |-> d, time |-> NoTime, dec |-> NoDec]
DatetimeValue(d, t) ==
    [kind |-> "datetime", text |-> <<>>, date |-> d, time |-> t, dec |-> NoDec]
DecimalValue(c) ==
    [kind |-> "Decimal", text |-> <<>>, date |-> NoDate, time |-> NoTime, dec |-> c]

\* The date, time and number texts of the model and what they read as.
DateTexts == {"2020-01-02", "2021-12-31"}
TimeTexts == {"00:00:00", "03:04:05"}
DecimalTexts == {"1.5", "1.50", "-2"}

DateOf(t) ==
    IF t = "2020-01-02" THEN [year |-> 2020, month |-> 1, day |-> 2]
    ELSE [year |-> 2021, month |-> 12, day |-> 31]

TimeOf(t) ==
    IF t = "03:04:05" THEN [hour |-> 3, minute |-> 4, second |-> 5]
    ELSE [hour |-> 0, minute |-> 0, second |-> 0]

DecimalOf(t) ==
    CASE t = "1.5" -> [sign |-> 0, digits |-> <<1, 5>>, exponent |-> -1]
      [] t = "1.50" -> [sign |-> 0, digits |-> <<1, 5, 0>>, exponent |-> -2]
      [] OTHER -> [sign |-> 1, digits |-> <<2>>, exponent |-> 0]

Midnight == TimeOf("00:00:00")

\* dateutil.parser.parse(value): [raised, ret].  Anything but a str is a
\* TypeError; a date text reads as that date at midnight, a date text and a
\* time text with ' ' or 'T' between as that datetime; a text with no date
\* in it is a ParserError (a ValueError).
parse(value) ==
    LET s == value.text IN
    IF value.kind # "str" THEN [raised |-> "TypeError", ret |-> NoneValue]
    ELSE IF Len(s) = 1 /\ s[1] \in DateTexts
    THEN [raised |-> "none", ret |-> DatetimeValue(DateOf(s[1]), Midnight)]
    ELSE IF /\ Len(s) = 3
            /\ s[1] \in DateTexts
            /\ s[2] \in {" ", "T"}
            /\ s[3] \in TimeTexts
    THEN [raised |-> "none", ret |-> DatetimeValue(DateOf(s[1]), TimeOf(s[3]))]
    ELSE [raised |-> "ValueError", ret |-> NoneValue]

\* datetime.date(): the date part of a datetime.
date(value) == DateValue(value.date)

\* Decimal(value) for a value that is not a Decimal: a number text reads as
\* that number with its digits and exponent kept, any other text is an
\* InvalidOperation, a date or datetime a TypeError.
Decimal(value) ==
    IF value.kind # "str" THEN [raised |-> "TypeError", ret |-> NoneValue]
    ELSE IF Len(value.text) = 1 /\ value.text[1] \in DecimalTexts
    THEN [raised |-> "none", ret |-> DecimalValue(DecimalOf(value.text[1]))]
    ELSE [raised |-> "InvalidOperation", ret |-> NoneValue]

Returned(value) == [raised |-> "none", ret |-> value]

\* HiveDate.result_processor's process with the branch for a date dropped.
HiveDateProcess_no_date_branch(value) ==
    IF value.kind = "datetime" THEN Returned(date(value))
    ELSE IF value.kind # "None"
    THEN IF parse(value).raised = "none" THEN Returned(date(parse(value).ret))
         ELSE parse(value)
    ELSE Returned(NoneValue)

\* HiveDate.result_processor's process.
HiveDateProcess(value) ==
    IF value.kind = "datetime" THEN Returned(date(value))
    ELSE IF value.kind = "date" THEN Returned(value)
    ELSE IF value.kind # "None"
    THEN IF parse(value).raised = "none" THEN Returned(date(parse(value).ret))
         ELSE parse(value)
    ELSE Returned(NoneValue)

\* HiveTimestamp.result_processor's process.
HiveTimestampProcess(value) ==
    IF value.kind = "datetime" THEN Returned(value)
    ELSE IF value.kind # "None" THEN parse(value)
    ELSE Returned(NoneValue)

\* HiveDecimal.result_processor's process.
HiveDecimalProcess(value) ==
    IF value.kind = "Decimal" THEN Returned(value)
    ELSE IF value.kind # "None" THEN Decimal(value)
    ELSE Returned(NoneValue)

ProcessorTypes == {"HiveDate", "HiveTimestamp", "HiveDecimal"}

\* type.result_processor(dialect, coltype)(value)
result_processor(type, value) ==
    CASE type = "HiveDate" -> HiveDateProcess(value)
      [] type = "HiveTimestamp" -> HiveTimestampProcess(value)
      [] OTHER -> HiveDecimalProcess(value)

\* The values a processor is applied to.  A text with a time and no date is
\* left out: dateutil reads it against the day of the call.
ResultTexts ==
    {<<>>, <<"x">>}
        \cup {<<d>> : d \in DateTexts}
        \cup {<<d, sep, t>> : d \in DateTexts, sep \in {" ", "T"}, t \in TimeTexts}
        \cup {<<n>> : n \in DecimalTexts}

ResultValues ==
    {NoneValue}
        \cup {StrValue(s) : s \in ResultTexts}
        \cup {DateValue(DateOf(d)) : d \in DateTexts}
        \cup {DatetimeValue(DateOf(d), TimeOf(t)) : d \in DateTexts, t \in TimeTexts}
        \cup {DecimalValue(DecimalOf(n)) : n \in DecimalTexts}

\* The number texts go to the Decimal processor only: dateutil reads a bare
\* number against the day of the call.
ProcessorArgs ==
    {a \in [type : ProcessorTypes, value : ResultValues] :
        (a.type # "HiveDecimal" /\ a.value.kind = "str") =>
            (Len(a.value.text) # 1 \/ a.value.text[1] \notin DecimalTexts)}

InitTypes ==
    /\ db = [f \in FullTables |-> OtherAnswer]
    /\ \/ \E a \in ArrayArgs : given = Given("HiveArray", a)
       \/ \E a \in ProcessorArgs : given = Given("result_processor", a)
    /\ call = NoCall
    /\ item_type = [c \in Classes |-> Unset]

NewHiveArray ==
    /\ given.kind = "HiveArray"
    /\ LET a == given.value
           r == HiveArrayInit(a.item_type, a.dimensions, a.zero_indexes)
       IN call' = [op |-> "HiveArray", arg |-> a, raised |-> r.raised,
                   ret |-> r.ret, warned |-> <<>>]
    /\ UNCHANGED <<db, given, item_type>>

\* A processor applied to the value the engine returned.
ProcessResult ==
    /\ given.kind = "result_processor"
    /\ LET a == given.value
           r == result_processor(a.type, a.value)
       IN call' = [op |-> "result_processor", arg |-> a, raised |-> r.raised,
                   ret |-> r.ret, warned |-> <<>>]
    /\ UNCHANGED <<db, given, item_type>>

\* The same processor applied to what it returned.
ProcessAgain ==
    /\ call.op = "result_processor"
    /\ call.raised = "none"
    /\ LET a == [type |-> call.arg.type, value |-> call.ret]
           r == result_processor(a.type, a.value)
       IN call' = [op |-> "result_processor", arg |-> a, raised |-> r.raised,
                   ret |-> r.ret, warned |-> <<>>]
    /\ UNCHANGED <<db, given, item_type>>

NextTypes == NewHiveArray \/ ProcessResult \/ ProcessAgain

SpecTypes == InitTypes /\ [][NextTypes]_vars

\* ------------------------------------------------------ claims on HiveArray
\* An item type that is itself an Array type, however it is given: a
\* HiveArray instance, the HiveArray class, or the type name 'array'.
IsArrayType(it) ==
    \/ it.form \in {"instance", "class"} /\ it.of = "HiveArray"
    \/ it.form = "str" /\ it.of = "array"

\* C10: constructing a HiveArray whose item type is itself an Array type,
\* however it is given, never yields an array whose item_type is an array:
\* the construction fails.
C10_NoNestedArray ==
    (call.op = "HiveArray" /\ IsArrayType(call.arg.item_type)) =>
        /\ call.raised # "none"
        /\ call.ret.item_type.of # "HiveArray"

\* ---------------------------------------------------- claims on get_indexes
\* C12: for every DESCRIBE output without a '# Partition Information' row,
\* also one with no rows left after the blank rows and the header row are
\* dropped, get_indexes returns the empty list and does not raise; it returns
\* one index named 'partition' only when a marker row is followed by at
\* least one non-blank row.
C12_NoMarkerNoIndex ==
    (GotRows /\ call.op = "get_indexes") =>
        /\ ~HasMarker(Trimmed(Asked)) =>
              call.raised = "none" /\ call.ret = <<>>
        /\ (call.raised = "none" /\ call.ret # <<>>) =>
              /\ Len(call.ret) = 1
              /\ call.ret[1].name = "partition"
              /\ HasMarker(Trimmed(Asked))
              /\ AfterMarker(Trimmed(Asked)) # <<>>

\* What is left of C12 where rows remain after the filtering.
C12_RowsLeft ==
    (GotRows /\ call.op = "get_indexes" /\ Trimmed(Asked) # <<>>) =>
        /\ call.raised = "none"
        /\ ~HasMarker(Trimmed(Asked)) => call.ret = <<>>
        /\ call.ret # <<>> =>
              /\ Len(call.ret) = 1
              /\ call.ret[1].name = "partition"
              /\ HasMarker(Trimmed(Asked))
              /\ AfterMarker(Trimmed(Asked)) # <<>>

\* ---------------------------------------------- claims on result processors
Processed == call.op = "result_processor"

\* A value the engine already returned in the processor's typed form.
AlreadyTyped(type, value) ==
    CASE type = "HiveDate" -> value.kind \in {"date", "datetime"}
      [] type = "HiveTimestamp" -> value.kind = "datetime"
      [] OTHER -> value.kind = "Decimal"

\* Applying the processor to what it returned returns the same value.
OwnOutputKept ==
    (Processed /\ call.raised = "none") =>
        result_processor(call.arg.type, call.ret) = Returned(call.ret)

NullStaysNull ==
    (Processed /\ call.arg.value = NoneValue) =>
        call.raised = "none" /\ call.ret = NoneValue

\* C11 as stated: for the date, timestamp and decimal result processors a
\* null input returns null, a value already in typed form (a date or
\* datetime for Date, a datetime for Timestamp, a Decimal for Decimal) is
\* returned unchanged, and the processor applied to its own output returns
\* the same value.
C11_TypedPassedThrough ==
    /\ NullStaysNull
    /\ (Processed /\ AlreadyTyped(call.arg.type, call.arg.value)) =>
          call.raised = "none" /\ call.ret = call.arg.value
    /\ OwnOutputKept

\* C11 as the code has it: a null input returns null; a date for Date, a
\* datetime for Timestamp and a Decimal for Decimal are returned unchanged,
\* and a datetime for Date is returned as its date part, the time of day
\* dropped; the processor applied to its own output returns the same value.
C11_TypedKeptDatetimeCutToDate ==
    /\ NullStaysNull
    /\ (Processed /\ AlreadyTyped(call.arg.type, call.arg.value)) =>
          /\ call.raised = "none"
          /\ call.ret =
                IF call.arg.type = "HiveDate" /\ call.arg.value.kind = "datetime"
                THEN DateValue(call.arg.value.date)
                ELSE call.arg.value
    /\ OwnOutputKept

\* The Date processor was given a datetime with a time of day and returned
\* its date.
C11_Witness ==
    /\ Processed
    /\ call.arg.type = "HiveDate"
    /\ call.arg.value.kind = "datetime"
    /\ call.arg.value.time # Midnight
    /\ call.raised = "none"
    /\ call.ret.kind = "date"
    /\ call.ret.date = call.arg.value.date

\* A processor was applied to a typed value it had returned for a text.
C11_WitnessAgain ==
    /\ Processed
    /\ given.value.value.kind = "str"
    /\ call.arg.value.kind \in {"date", "datetime", "Decimal"}
    /\ call.raised = "none"
    /\ call.ret = call.arg.value

====
